---- MODULE Spec2Model ----
(***************************************************************************)
(* Model of the two command-line scripts of googleads-bidmanager-examples: *)
(*   get_latest_report.py   (report script: poll, evaluate freshness,      *)
(*                           download or re-run the query)                 *)
(*   download_line_items.py (line-item script)                             *)
(* The remote service, the clock, the time zone and the transport are the  *)
(* environment: their answers are chosen nondeterministically.             *)
(***************************************************************************)
EXTENDS Integers, Sequences, FiniteSets, TLC

VARIABLES
  script,       \* which script this process runs: "report" | "lineitems"
  pc,           \* position of the script
  args,         \* parsed command line (argparse namespace)
  exc,          \* exception being propagated ("none" when there is none)
  exitStatus,   \* -1 while running, then the process exit status
  uncaught,     \* TRUE when the process died of an uncaught exception
  out,          \* lines printed, as a sequence of tags
  calls,        \* remote calls issued so far, in order
  file,         \* the local destination file
  file0,        \* the destination file as it was before the run
  payload,      \* bytes behind the remote resource of the current transfer
  dont_wait,    \* dbm_getquery_safe: parameter dont_wait
  query,        \* dbm_getquery_safe: local variable query
  seen,         \* snapshots getquery has returned, in order
  fetches,      \* number of getquery requests executed
  sleeps,       \* number of sleep(wait_time) calls
  returned,     \* TRUE once dbm_getquery_safe has returned query
  fresh,        \* result of the last is_in_report_window call ("unset" before)
  clock,        \* inputs of the last is_in_report_window call
  saveCalls,    \* invocations of save_report_to_file, in order
  request_body, \* download_line_items.py: request_body
  dl            \* locals of save_report_to_file (READCHUNK branch)

vars == <<script, pc, args, exc, exitStatus, uncaught, out, calls, file, file0,
          payload, dont_wait, query, seen, fetches, sleeps, returned, fresh,
          clock, saveCalls, request_body, dl>>

pollerVars == <<dont_wait, query, seen, fetches, sleeps, returned>>
procVars   == <<script, args, request_body, exitStatus, uncaught>>
fileVars   == <<file, file0, payload, dl>>

----------------------------------------------------------------------------
(* Bounds of the model *)

MaxPolls  == 2    \* at most this many snapshots with running = TRUE
MaxN      == 2    \* remote resources of 0..MaxN bytes (and 100..100+MaxN)
MaxWindow == 1    \* --report_window in 0..MaxWindow hours

----------------------------------------------------------------------------
(* Time: datetime objects are naive local wall-clock values with microsecond *)
(* resolution, kept as [ms, us] so that no product leaves the integer range. *)

MsPerHour == 3600000
HalfHour  == MsPerHour \div 2

\* A time zone: UTC offset `before` up to the epoch instant `at`, `after` from it.
Zones ==
  { [at |-> 0,             before |-> 0,         after |-> 0],          \* UTC
    [at |-> 11 * HalfHour, before |-> MsPerHour, after |-> 0],          \* DST ends
    [at |-> 11 * HalfHour, before |-> 0,         after |-> MsPerHour] } \* DST starts

utcoffset(zone, epoch_ms) ==
  IF epoch_ms < zone.at THEN zone.before ELSE zone.after

\* datetime.fromtimestamp(int(run_time_ms)/1000): naive local time of an epoch instant
fromtimestamp(zone, run_time_ms) ==
  [ms |-> run_time_ms + utcoffset(zone, run_time_ms), us |-> 0]

\* datetime.now(): naive local time of the current instant (epoch ms + microseconds)
datetime_now(zone, now_ms, now_us) ==
  [ms |-> now_ms + utcoffset(zone, now_ms), us |-> now_us]

\* datetime - timedelta(hours=h)
minus_hours(d, h) == [ms |-> d.ms - h * MsPerHour, us |-> d.us]

\* datetime > datetime
later(a, b) == a.ms > b.ms \/ (a.ms = b.ms /\ a.us > b.us)

is_in_report_window(zone, now_ms, now_us, run_time_ms, report_window) ==
  LET report_time            == fromtimestamp(zone, run_time_ms)
      earliest_time_in_range == minus_hours(datetime_now(zone, now_ms, now_us),
                                            report_window)
  IN  later(report_time, earliest_time_in_range)

\* The instants the environment can present.
NowMs    == 12 * HalfHour
NowUs    == {0, 500}
Windows  == 0 .. MaxWindow
RunTimes == { NowMs - k * HalfHour + d : k \in -1 .. (2 * MaxWindow + 2),
                                         d \in {-1, 0, 1} }

Clocks == [zone : Zones, now_ms : {NowMs}, now_us : NowUs,
           run_time_ms : RunTimes, report_window : Windows]

NoClock == [zone |-> [at |-> 0, before |-> 0, after |-> 0], now_ms |-> 0,
            now_us |-> 0, run_time_ms |-> 0, report_window |-> 0]

----------------------------------------------------------------------------
(* Values shared by the scripts *)

ValidDownloadMethods == {"URLRETRIEVE", "COPYFILEOBJ", "READCHUNK"}
ValidFilterTypes     == {"ADVERTISER_ID", "INSERTION_ORDER_ID", "LINE_ITEM_ID"}

\* argparse gives None for an option that was not passed
None == "None"

NoArgs == [query_id |-> 0, report_window |-> 0, report_daterange |-> None,
           download_method |-> None, filter_type |-> None, filter_ids |-> None]

\* a Python bool, as it prints
Bool(b) == IF b THEN "True" ELSE "False"

\* A remote call as the service sees it
Call(op, queryId, dataRange, filterType, filterIds) ==
  [op |-> op, queryId |-> queryId, dataRange |-> dataRange,
   filterType |-> filterType, filterIds |-> filterIds]

\* Local file: absent, or present with its bytes
NoFile        == [exists |-> FALSE, content |-> <<>>]
FileOf(bytes) == [exists |-> TRUE, content |-> bytes]
OldFile       == FileOf(<<7, 7>>)

NoDl == [block_size |-> 0, size |-> 0, blocknum |-> 0, rest |-> <<>>,
         headers |-> "unbound", handle |-> "closed", caught |-> "none"]

\* Where a raised exception lands: inside a script every call of main is in the
\* top-level try; a function called on its own raises to its caller.
RaisePc == IF script \in {"report", "lineitems"} THEN "except_top" ELSE "raised"

----------------------------------------------------------------------------
(* Query snapshots returned by queries().getquery(queryId).execute() *)

NoQuery == [queryId |-> 0, hasMetadata |-> FALSE, running |-> FALSE,
            hasRunTime |-> FALSE, latestReportRunTimeMs |-> 0, hasPath |-> FALSE]

SnapshotTimes == {NowMs - MsPerHour, NowMs - MsPerHour + 1}

\* Finished snapshots carry any combination of the optional metadata keys; a
\* running one is a query with or without an earlier report.
Snapshots(q) ==
  { [queryId |-> q, hasMetadata |-> FALSE, running |-> FALSE,
     hasRunTime |-> FALSE, latestReportRunTimeMs |-> 0, hasPath |-> FALSE] }
  \cup
  { [queryId |-> q, hasMetadata |-> TRUE, running |-> FALSE,
     hasRunTime |-> TRUE, latestReportRunTimeMs |-> t, hasPath |-> p] :
       t \in SnapshotTimes, p \in BOOLEAN }
  \cup
  { [queryId |-> q, hasMetadata |-> TRUE, running |-> TRUE,
     hasRunTime |-> TRUE, latestReportRunTimeMs |-> NowMs - MsPerHour,
     hasPath |-> TRUE] }
  \cup
  { [queryId |-> q, hasMetadata |-> TRUE, running |-> r,
     hasRunTime |-> FALSE, latestReportRunTimeMs |-> 0, hasPath |-> FALSE] :
       r \in BOOLEAN }

RunningSeen == Cardinality({i \in 1 .. Len(seen) : seen[i].running})

----------------------------------------------------------------------------
(* dbm_getquery_safe *)

\* line 116: the loop condition query['metadata']['running']
LoopCondition_Negated(q) == ~q.running

LoopCondition(q) == q.running

\* line 120: if dont_wait
DontWaitBranch_Ignored == FALSE

DontWaitBranch == dont_wait

\* lines 114-115 and 125-126: execute one getquery request
GetQuery ==
  /\ pc = "getquery"
  /\ fetches' = fetches + 1
  /\ calls' = Append(calls, Call("getquery", args.query_id, None, None, None))
  /\ \/ \E q \in Snapshots(args.query_id) :
          /\ q.running => RunningSeen < MaxPolls
          /\ query' = q
          /\ seen' = Append(seen, q)
          /\ pc' = "while"
          /\ exc' = exc
     \/ /\ exc' = "HttpError"           \* transport failure propagates
        /\ pc' = RaisePc
        /\ UNCHANGED <<query, seen>>
  /\ UNCHANGED <<procVars, fileVars, out, dont_wait, sleeps, returned, fresh,
                 clock, saveCalls>>

\* lines 116-122 and 127: the loop test, the dont_wait branch, the return
WhileTest ==
  /\ pc = "while"
  /\ IF ~query.hasMetadata
       THEN /\ exc' = "KeyError"         \* query['metadata']
            /\ pc' = RaisePc
            /\ UNCHANGED <<out, returned>>
       ELSE IF LoopCondition(query)
         THEN /\ out' = Append(out, "Query is still running")
              /\ IF DontWaitBranch
                   THEN /\ exc' = "RuntimeError"   \* bare raise, nothing active
                        /\ pc' = RaisePc
                   ELSE /\ exc' = exc
                        /\ pc' = "sleep"
              /\ UNCHANGED returned
         ELSE /\ returned' = TRUE
              /\ pc' = IF script = "report" THEN "main_try" ELSE "done"
              /\ UNCHANGED <<out, exc>>
  /\ UNCHANGED <<procVars, fileVars, calls, dont_wait, query, seen, fetches,
                 sleeps, fresh, clock, saveCalls>>

\* line 124: sleep(wait_time)
Sleep ==
  /\ pc = "sleep"
  /\ sleeps' = sleeps + 1
  /\ pc' = "getquery"
  /\ UNCHANGED <<procVars, fileVars, exc, out, calls, dont_wait, query, seen,
                 fetches, returned, fresh, clock, saveCalls>>

----------------------------------------------------------------------------
(* Remote resources and transfers *)

Bytes == {0, 1}

SmallResources == UNION { [1 .. n -> Bytes] : n \in 0 .. MaxN }

\* the chunked reader splits a resource into 100 chunks (line 205)
Chunks == 100

LargeResources == { [i \in 1 .. (Chunks + n) |-> i % 2] : n \in 0 .. MaxN }

Resources == SmallResources \cup LargeResources

Prefix(s, k) == SubSeq(s, 1, k)

\* the bytes a transfer that broke off has delivered: any proper prefix
Truncations(r) == { Prefix(r, k) : k \in 0 .. (Len(r) - 1) }

\* exceptions of the transport that are OSError (URLError, HTTPError, timeouts,
\* ContentTooShortError) and those that are not (http.client.HTTPException)
TransportErrors == {"IOError", "HTTPException"}

----------------------------------------------------------------------------
(* get_latest_report.py: __main__ *)

QueryIds     == {0, 7}            \* 0: no query id given
DateRanges   == {"LAST_7_DAYS", "CURRENT_DAY"}
MethodInputs == ValidDownloadMethods \cup {"", "BAD"}

\* lines 224-233: parse the command line, settle QUERY_ID
ReportParseArgs ==
  /\ script = "report"
  /\ pc = "start"
  /\ \E q \in QueryIds, w \in Windows, r \in DateRanges, m \in MethodInputs :
       args' = [NoArgs EXCEPT !.query_id = q, !.report_window = w,
                              !.report_daterange = r, !.download_method = m]
  /\ pc' = "validate"
  /\ UNCHANGED <<script, request_body, exitStatus, uncaught, exc, out, calls,
                 fileVars, pollerVars, fresh, clock, saveCalls>>

\* lines 235-240: check the download method
ReportValidate ==
  /\ script = "report"
  /\ pc = "validate"
  /\ IF args.download_method # ""
       THEN IF args.download_method \in ValidDownloadMethods
              THEN /\ out' = Append(out, "Download using")
                   /\ pc' = "get_service"
                   /\ UNCHANGED <<exc, exitStatus, uncaught>>
              ELSE /\ exc' = "ValueError"     \* raised outside the try
                   /\ uncaught' = TRUE
                   /\ exitStatus' = 1
                   /\ pc' = "exit"
                   /\ out' = out
       ELSE /\ pc' = "get_service"
            /\ UNCHANGED <<exc, exitStatus, uncaught, out>>
  /\ UNCHANGED <<script, args, request_body, calls, fileVars, pollerVars, fresh, clock,
                 saveCalls>>

\* lines 242-243 (download_line_items.py line 92): get_service(...), then main
\* is entered; line 67 of main picks the branch
GetService ==
  /\ pc = "get_service"
  /\ \/ /\ pc' = IF script = "lineitems" THEN "l_request"
                 ELSE IF args.query_id # 0 THEN "getquery" ELSE "listqueries"
        /\ exc' = exc
     \/ /\ exc' = "ServiceError"
        /\ pc' = "except_top"
  /\ UNCHANGED <<procVars, out, calls, fileVars, pollerVars, fresh, clock,
                 saveCalls>>

TopLevelExcept_Reraise ==
  /\ pc = "except_top"
  /\ out' = Append(out, "Error")
  /\ uncaught' = TRUE
  /\ exitStatus' = 1
  /\ pc' = "exit"
  /\ UNCHANGED <<script, args, request_body, exc, calls, fileVars, pollerVars,
                 fresh, clock, saveCalls>>

\* lines 245-246 (download_line_items.py lines 94-95): except Exception
TopLevelExcept ==
  /\ pc = "except_top"
  /\ out' = Append(out, "Error")
  /\ exc' = "none"
  /\ exitStatus' = 0
  /\ pc' = "exit"
  /\ UNCHANGED <<script, args, request_body, uncaught, calls, fileVars, pollerVars, fresh,
                 clock, saveCalls>>

----------------------------------------------------------------------------
(* get_latest_report.py: main *)

SaveCall(q, m) ==
  [output_dir |-> "output_directory", query_id |-> q.queryId,
   report_url |-> "googleCloudStoragePathForLatestReport", download_method |-> m]

\* main returns to __main__, whose last statement it was: the process ends
Finish == pc' = "exit" /\ exitStatus' = 0

\* lines 71-78 and 89-90: the try block up to the call of save_report_to_file,
\* and the KeyError handler
MainTry ==
  /\ pc = "main_try"
  /\ IF ~query.hasRunTime
       THEN /\ out' = Append(out, "No report found")   \* KeyError, line 73
            /\ Finish
            /\ UNCHANGED <<fresh, saveCalls>>
       ELSE \E zone \in Zones, now_us \in NowUs :
            LET f == is_in_report_window(zone, NowMs, now_us,
                       query.latestReportRunTimeMs, args.report_window)
            IN  /\ fresh' = Bool(f)
                /\ IF f
                     THEN IF query.hasPath
                            THEN /\ saveCalls' = Append(saveCalls,
                                        SaveCall(query, args.download_method))
                                 /\ pc' = "save"
                                 /\ UNCHANGED <<out, exitStatus>>
                            ELSE /\ out' = Append(out, "No report found")
                                 /\ Finish          \* KeyError, lines 77-78
                                 /\ UNCHANGED saveCalls
                     ELSE /\ pc' = "runquery"
                          /\ UNCHANGED <<out, exitStatus, saveCalls>>
  /\ UNCHANGED <<script, args, request_body, uncaught, exc, calls, fileVars, pollerVars, clock>>

\* lines 81-82: request_body['dataRange'] = report_daterange
RunQueryBody_Default == "LAST_7_DAYS"

RunQueryBody == args.report_daterange

\* lines 81-85: run the query again with the requested date range
RunQuery ==
  /\ pc = "runquery"
  /\ calls' = Append(calls, Call("runquery", args.query_id, RunQueryBody,
                                 None, None))
  /\ \/ Finish /\ exc' = exc
     \/ /\ exc' = "HttpError"
        /\ pc' = "except_top"
        /\ exitStatus' = exitStatus
  /\ UNCHANGED <<script, args, request_body, uncaught, out, fileVars, pollerVars, fresh,
                 clock, saveCalls>>

\* lines 93-100: list the queries
ListQueries ==
  /\ pc = "listqueries"
  /\ calls' = Append(calls, Call("listqueries", 0, None, None, None))
  /\ \/ /\ out' = Append(out, "Id Name")
        /\ Finish /\ exc' = exc
     \/ /\ out' = out \o <<"Id Name", "No queries exist.">>
        /\ Finish /\ exc' = exc
     \/ /\ exc' = "HttpError"
        /\ pc' = "except_top"
        /\ UNCHANGED <<out, exitStatus>>
  /\ UNCHANGED <<script, args, request_body, uncaught, fileVars, pollerVars, fresh, clock,
                 saveCalls>>

\* line 79: save_report_to_file has returned
DownloadComplete ==
  /\ pc = "save_return"
  /\ out' = Append(out, "Download complete.")
  /\ Finish
  /\ UNCHANGED <<script, args, request_body, uncaught, exc, calls, fileVars, pollerVars,
                 fresh, clock, saveCalls>>

----------------------------------------------------------------------------
(* save_report_to_file *)

Method == saveCalls[Len(saveCalls)].download_method

\* what urlretrieve leaves behind and raises; "ok" when it returns (it moves
\* the resource in blocks of 8192 bytes, copyfileobj below in blocks of 16000:
\* both take the resources of the model in one block)
UrlRetrieveOutcomes(r) ==
  { [result |-> "ok", written |-> FileOf(r)] }
  \cup { [result |-> "ContentTooShortError", written |-> FileOf(t)] :
           t \in Truncations(r) }
  \cup { [result |-> e, written |-> file] : e \in TransportErrors }
  \cup { [result |-> e, written |-> FileOf(t)] :
           e \in TransportErrors, t \in Truncations(r) }

\* lines 159-171: download_method == 'URLRETRIEVE'
SaveUrlRetrieve ==
  /\ pc = "save"
  /\ Method = "URLRETRIEVE"
  /\ \E r \in SmallResources, hasLength \in BOOLEAN : \E o \in UrlRetrieveOutcomes(r) :
       /\ payload' = r
       /\ file' = o.written
       /\ IF o.result = "ok"
            THEN /\ dl' = [dl EXCEPT !.headers = "bound",
                                     !.size = IF hasLength THEN Len(r) ELSE 0]
                 /\ out' = Append(out, "Download time urlretrive")
                 /\ pc' = "save_return"
                 /\ exc' = exc
            ELSE IF o.result = "ContentTooShortError"
              THEN \* caught at line 164; line 167 then reads the unbound headers
                   /\ out' = Append(out, "Erroe in urlretrieve")
                   /\ exc' = "UnboundLocalError"
                   /\ pc' = RaisePc
                   /\ dl' = dl
              ELSE /\ exc' = o.result         \* no handler in this branch
                   /\ pc' = RaisePc
                   /\ UNCHANGED <<out, dl>>
  /\ UNCHANGED <<procVars, calls, file0, pollerVars, fresh, clock, saveCalls>>

\* what "with urlopen(..) as response, open(.., 'wb') as handle: copyfileobj"
\* leaves behind and raises: urlopen comes first, so a failure to open the
\* remote side leaves the file alone
CopyFileObjOutcomes(r) ==
  { [result |-> "ok", written |-> FileOf(r)] }
  \cup { [result |-> e, written |-> file] : e \in TransportErrors }
  \cup { [result |-> e, written |-> FileOf(t)] :
           e \in TransportErrors, t \in Truncations(r) }

\* lines 173-187: download_method == 'COPYFILEOBJ'
SaveCopyFileObj ==
  /\ pc = "save"
  /\ Method = "COPYFILEOBJ"
  /\ \E r \in SmallResources : \E o \in CopyFileObjOutcomes(r) :
       /\ payload' = r
       /\ file' = o.written
       /\ IF o.result = "ok"
            THEN /\ out' = Append(out, "Download time copyfileobj")
                 /\ pc' = "save_return"
                 /\ exc' = exc
            ELSE IF o.result = "IOError"
              THEN /\ out' = out \o <<"Error IO problem", "Download time copyfileobj">>
                   /\ pc' = "save_return"
                   /\ exc' = exc
              ELSE /\ exc' = o.result         \* neither shutil.Error nor IOError
                   /\ pc' = RaisePc
                   /\ out' = out
  /\ UNCHANGED <<procVars, calls, file0, dl, pollerVars, fresh, clock, saveCalls>>

\* block size when the length is unknown (line 195)
DefaultBlockSize == 100 * 1024 * 1024

Min(a, b) == IF a < b THEN a ELSE b

\* lines 195 and 201-205: the block size, from the content-length when present
BlockSize_NoPlusOne(hasLength, size) ==
  IF hasLength THEN size \div Chunks ELSE DefaultBlockSize

BlockSize(hasLength, size) ==
  IF hasLength THEN (size \div Chunks) + 1 ELSE DefaultBlockSize

\* lines 197-207: open the destination, then the remote resource; size the blocks
ChunkOpen ==
  /\ pc = "save"
  /\ Method = "READCHUNK"
  /\ \/ \* open(.., 'wb') fails
        /\ out' = Append(out, "Error")
        /\ dl' = [dl EXCEPT !.caught = "open"]
        /\ pc' = "chunk_end"
        /\ UNCHANGED <<file, payload>>
     \/ \* the file is created or truncated, then urlopen fails
        /\ file' = FileOf(<<>>)
        /\ out' = Append(out, "Error")
        /\ dl' = [dl EXCEPT !.caught = "urlopen"]
        /\ pc' = "chunk_end"
        /\ UNCHANGED payload
     \/ \E r \in Resources, hasLength \in BOOLEAN :
        LET size == IF hasLength THEN Len(r) ELSE 0
        IN  /\ file' = FileOf(<<>>)
            /\ payload' = r
            /\ dl' = [block_size |-> BlockSize(hasLength, size),
                      size |-> size, blocknum |-> 0, rest |-> r,
                      headers |-> IF hasLength THEN "content-length" ELSE "none",
                      handle |-> "open", caught |-> "none"]
            /\ pc' = "chunk_loop"
            /\ out' = out
  /\ UNCHANGED <<procVars, exc, calls, file0, pollerVars, fresh, clock, saveCalls>>

\* lines 208-216: one turn of the read loop, or the handler of what it raises
ChunkRead ==
  /\ pc = "chunk_loop"
  /\ \/ LET n     == Min(dl.block_size, Len(dl.rest))
            chunk == SubSeq(dl.rest, 1, n)
        IN  IF chunk = <<>>
              THEN /\ dl' = [dl EXCEPT !.handle = "closed"]
                   /\ pc' = "chunk_end"
                   /\ UNCHANGED <<file, out>>
              ELSE /\ dl' = [dl EXCEPT !.blocknum = @ + 1,
                                       !.rest = SubSeq(@, n + 1, Len(@))]
                   /\ file' = FileOf(file.content \o chunk)
                   /\ pc' = "chunk_loop"
                   /\ out' = out
     \/ \* read or write raises: except Exception
        /\ dl' = [dl EXCEPT !.handle = "closed", !.caught = "read"]
        /\ out' = Append(out, "Error")
        /\ pc' = "chunk_end"
        /\ file' = file
  /\ UNCHANGED <<procVars, exc, calls, file0, payload, pollerVars, fresh, clock,
                 saveCalls>>

\* lines 218-220
ChunkEnd ==
  /\ pc = "chunk_end"
  /\ out' = Append(out, "Download time read chunk")
  /\ pc' = "save_return"
  /\ UNCHANGED <<procVars, exc, calls, fileVars, pollerVars, fresh, clock,
                 saveCalls>>

\* lines 159, 173, 189: no branch matches the method
SaveNothing ==
  /\ pc = "save"
  /\ Method \notin ValidDownloadMethods
  /\ pc' = "save_return"
  /\ UNCHANGED <<procVars, exc, out, calls, fileVars, pollerVars, fresh, clock,
                 saveCalls>>

----------------------------------------------------------------------------
(* download_line_items.py *)

FilterTypeInputs == ValidFilterTypes \cup {None, "", "BAD"}
FilterIdInputs   == {None, "", "1", "1,2"}

\* str.split(',') on the inputs above
Split(s) == IF s = "1,2" THEN <<"1", "2">> ELSE <<s>>

NoBody == [filterIds |-> None, filterType |-> None]

\* str.encode('utf-8') on code points below 0x800
RECURSIVE Encode(_)
Encode(text) ==
  IF text = <<>> THEN <<>>
  ELSE LET c == Head(text)
       IN  (IF c < 128 THEN <<c>>
            ELSE <<192 + (c \div 64), 128 + (c % 64)>>) \o Encode(Tail(text))

\* response['lineItems']: CSV text, as code points
LineItemTexts == {<<>>, <<65>>, <<65, 233>>}

\* line 77
LineParseArgs ==
  /\ script = "lineitems"
  /\ pc = "start"
  /\ \E t \in FilterTypeInputs, i \in FilterIdInputs :
       args' = [NoArgs EXCEPT !.filter_type = t, !.filter_ids = i]
  /\ pc' = "l_validate"
  /\ UNCHANGED <<script, request_body, exitStatus, uncaught, exc, out, calls,
                 fileVars, pollerVars, fresh, clock, saveCalls>>

\* lines 79-89: build request_body, check the filter type
LineValidate ==
  /\ script = "lineitems"
  /\ pc = "l_validate"
  /\ LET withIds == IF args.filter_ids \notin {None, ""}
                      THEN [NoBody EXCEPT !.filterIds = Split(args.filter_ids)]
                      ELSE NoBody
     IN  IF args.filter_type \notin {None, ""}
           THEN IF args.filter_type \in ValidFilterTypes
                  THEN /\ request_body' = [withIds EXCEPT !.filterType = args.filter_type]
                       /\ pc' = "get_service"
                       /\ UNCHANGED <<exc, exitStatus, uncaught>>
                  ELSE /\ request_body' = withIds
                       /\ exc' = "ValueError"     \* raised outside the try
                       /\ uncaught' = TRUE
                       /\ exitStatus' = 1
                       /\ pc' = "exit"
           ELSE /\ request_body' = withIds
                /\ pc' = "get_service"
                /\ UNCHANGED <<exc, exitStatus, uncaught>>
  /\ UNCHANGED <<script, args, out, calls, fileVars, pollerVars, fresh, clock,
                 saveCalls>>

\* lines 57-62: build the request, open the destination for writing
LineOpen ==
  /\ pc = "l_request"
  /\ \/ /\ file' = FileOf(<<>>)
        /\ dl' = [dl EXCEPT !.handle = "open"]
        /\ pc' = "l_execute"
        /\ exc' = exc
     \/ /\ exc' = "IOError"
        /\ pc' = "except_top"
        /\ UNCHANGED <<file, dl>>
  /\ UNCHANGED <<procVars, out, calls, file0, payload, pollerVars, fresh, clock,
                 saveCalls>>

\* line 65: execute the request, write the encoded payload; the with block
\* closes the handler on every way out
LineExecute ==
  /\ pc = "l_execute"
  /\ calls' = Append(calls, Call("downloadlineitems", 0, None,
                                 request_body.filterType, request_body.filterIds))
  /\ dl' = [dl EXCEPT !.handle = "closed"]
  /\ \/ \E text \in LineItemTexts :
          /\ payload' = Encode(text)
          /\ file' = FileOf(file.content \o Encode(text))
          /\ pc' = "l_done"
          /\ exc' = exc
     \/ \E e \in {"HttpError", "KeyError"} :
          /\ exc' = e
          /\ pc' = "except_top"
          /\ UNCHANGED <<file, payload>>
  /\ UNCHANGED <<procVars, out, file0, pollerVars, fresh, clock, saveCalls>>

\* lines 66-67
LineDone ==
  /\ pc = "l_done"
  /\ out' = Append(out, "Download complete.")
  /\ Finish
  /\ UNCHANGED <<script, args, request_body, uncaught, exc, calls, fileVars,
                 pollerVars, fresh, clock, saveCalls>>

----------------------------------------------------------------------------
(* Specifications *)

Idle ==
  /\ args = NoArgs /\ dont_wait = FALSE
  /\ request_body = NoBody /\ exc = "none" /\ exitStatus = -1
  /\ uncaught = FALSE /\ out = <<>> /\ calls = <<>> /\ payload = <<>>
  /\ query = NoQuery /\ seen = <<>> /\ fetches = 0 /\ sleeps = 0
  /\ returned = FALSE /\ fresh = "unset" /\ clock = NoClock
  /\ saveCalls = <<>> /\ dl = NoDl

\* A run of one of the two scripts
Init ==
  /\ script \in {"report", "lineitems"}
  /\ pc = "start"
  /\ file0 \in {NoFile, OldFile}
  /\ file = file0
  /\ Idle

Next ==
  \/ ReportParseArgs \/ ReportValidate \/ GetService \/ TopLevelExcept
  \/ GetQuery \/ WhileTest \/ Sleep
  \/ MainTry \/ RunQuery \/ ListQueries \/ DownloadComplete
  \/ SaveUrlRetrieve \/ SaveCopyFileObj \/ ChunkOpen \/ ChunkRead \/ ChunkEnd
  \/ SaveNothing
  \/ LineParseArgs \/ LineValidate \/ LineOpen \/ LineExecute \/ LineDone

Spec == Init /\ [][Next]_vars

\* A call of dbm_getquery_safe on its own, with either value of dont_wait
InitPoller ==
  /\ script = "dbm_getquery_safe"
  /\ pc = "getquery"
  /\ file0 = NoFile
  /\ file = file0
  /\ args \in { [NoArgs EXCEPT !.query_id = q] : q \in QueryIds \ {0} }
  /\ dont_wait \in BOOLEAN
  /\ request_body = NoBody /\ exc = "none" /\ exitStatus = -1
  /\ uncaught = FALSE /\ out = <<>> /\ calls = <<>> /\ payload = <<>>
  /\ query = NoQuery /\ seen = <<>> /\ fetches = 0 /\ sleeps = 0
  /\ returned = FALSE /\ fresh = "unset" /\ clock = NoClock
  /\ saveCalls = <<>> /\ dl = NoDl

NextPoller == GetQuery \/ WhileTest \/ Sleep

SpecPoller == InitPoller /\ [][NextPoller]_vars

\* lines 139-141: a call of is_in_report_window on its own
Evaluate ==
  /\ pc = "is_in_report_window"
  /\ fresh' = Bool(is_in_report_window(clock.zone, clock.now_ms, clock.now_us,
                                       clock.run_time_ms, clock.report_window))
  /\ pc' = "done"
  /\ UNCHANGED <<procVars, exc, out, calls, fileVars, pollerVars, clock, saveCalls>>

InitFresh ==
  /\ script = "is_in_report_window"
  /\ pc = "is_in_report_window"
  /\ file0 = NoFile
  /\ file = file0
  /\ clock \in Clocks
  /\ args = NoArgs /\ dont_wait = FALSE
  /\ request_body = NoBody /\ exc = "none" /\ exitStatus = -1
  /\ uncaught = FALSE /\ out = <<>> /\ calls = <<>> /\ payload = <<>>
  /\ query = NoQuery /\ seen = <<>> /\ fetches = 0 /\ sleeps = 0
  /\ returned = FALSE /\ fresh = "unset"
  /\ saveCalls = <<>> /\ dl = NoDl

NextFresh == Evaluate

SpecFresh == InitFresh /\ [][NextFresh]_vars

----------------------------------------------------------------------------
(* Properties *)

Printed(tag)  == \E i \in 1 .. Len(out) : out[i] = tag
CallsOf(op)   == SelectSeq(calls, LAMBDA c : c.op = op)

C3_DontWaitRaises ==
  (dont_wait /\ Len(seen) >= 1 /\ seen[1].hasMetadata /\ seen[1].running) =>
    /\ sleeps = 0
    /\ fetches = 1
    /\ ~returned
    /\ pc \in {"while", "raised"}
    /\ pc = "raised" => exc = "RuntimeError"

C3_Witness ==
  /\ dont_wait /\ pc = "raised" /\ exc = "RuntimeError"
  /\ Len(seen) = 1 /\ seen[1].running /\ sleeps = 0 /\ fetches = 1

\* the instant run_time_ms is strictly after the instant now minus window hours
AfterCutoff(c) ==
  later([ms |-> c.run_time_ms, us |-> 0],
        [ms |-> c.now_ms - c.report_window * MsPerHour, us |-> c.now_us])

\* C4: is_in_report_window(t, windowHours) is true iff t is strictly after now
\* minus windowHours hours (false at the exact boundary).
C4_FreshIffAfterCutoff ==
  (script = "is_in_report_window" /\ pc = "done") =>
     (fresh = "True" <=> AfterCutoff(clock))

\* C5: no remote call is issued while the download method (report script) or
\* the filter type (line-item script) is a value outside its enumerated set.
C5_InvalidRejectedBeforeRemoteCall ==
  calls # <<>> =>
    /\ script = "report" => args.download_method \in ValidDownloadMethods
    /\ script = "lineitems" => args.filter_type \in ValidFilterTypes \cup {None}

\* C6: when the record getquery returned has no metadata, the report script
\* ends with the "No report found" report and no other error, without a
\* download and without a runquery call.
C6_NoMetadataIsQueryNotFound ==
  (script = "report" /\ pc = "exit" /\ Len(seen) >= 1
     /\ ~seen[Len(seen)].hasMetadata) =>
    /\ Printed("No report found")
    /\ ~Printed("Error")
    /\ saveCalls = <<>>
    /\ CallsOf("runquery") = <<>>

\* C7: no exception leaves save_report_to_file: a transport error in any of the
\* three strategies is caught in the strategy.
C7_NoErrorEscapesSave ==
  ~(script = "report" /\ saveCalls # <<>> /\ pc = "except_top")

\* C8: every run that ends, ends with exit status zero and no uncaught exception.
C8_EveryErrorCaughtExitZero ==
  pc = "exit" => (exitStatus = 0 /\ ~uncaught)

\* C8 as amended: an exception raised inside the top-level try (by get_service
\* or main) is handled by the top-level handler, which prints it, and the
\* process exits with status zero; the only other ending is the ValueError for
\* an invalid download method or filter type, raised before the try and before
\* any remote call, which is uncaught and ends the process with status 1.
C8_ErrorsInTryCaughtExitZero ==
  /\ (exc # "none" /\ pc # "exit") => pc = "except_top"
  /\ pc = "exit" =>
       IF uncaught
         THEN /\ exc = "ValueError" /\ exitStatus = 1 /\ calls = <<>>
              /\ \/ script = "report"
                      /\ args.download_method \notin ValidDownloadMethods \cup {""}
                 \/ script = "lineitems"
                      /\ args.filter_type \notin ValidFilterTypes \cup {None, ""}
         ELSE exitStatus = 0 /\ exc = "none"

C8_Witness ==
  /\ pc = "exit" /\ exitStatus = 0 /\ ~uncaught
  /\ Len(out) >= 1 /\ out[Len(out)] = "Error"
  /\ Len(calls) >= 1

\* number of blocks that carry n bytes in blocks of b bytes
BlocksFor(n, b) == (n + b - 1) \div b

\* C9: a READCHUNK transfer that meets no error ends with the file holding
\* exactly the bytes of the resource in order, with or without a
\* content-length header; while it runs, what is written plus what is left is
\* the resource and every turn has written at least one byte, so it ends after
\* at most N turns and one empty read.
C9_ReadChunkCopiesAllBytes ==
  (script = "report" /\ saveCalls # <<>> /\ Method = "READCHUNK"
     /\ dl.caught = "none") =>
      /\ pc = "chunk_loop" =>
           /\ file.exists
           /\ file.content \o dl.rest = payload
           /\ dl.blocknum <= Len(file.content)
           /\ dl.block_size >= 1
      /\ pc \in {"chunk_end", "save_return", "exit"} =>
           /\ file = FileOf(payload)
           /\ dl.rest = <<>>
           /\ dl.handle = "closed"
           /\ dl.blocknum = BlocksFor(Len(payload), dl.block_size)
           /\ exc = "none"
           /\ dl.block_size = IF dl.headers = "content-length"
                                THEN (Len(payload) \div 100) + 1
                                ELSE 104857600

C9_Witness ==
  /\ script = "report" /\ saveCalls # <<>> /\ pc = "exit"
  /\ Method = "READCHUNK" /\ dl.caught = "none"
  /\ dl.headers = "content-length"
  /\ Len(payload) > Chunks /\ dl.blocknum > 1
  /\ file = FileOf(payload)

\* C10: when the remote retrieval fails before any payload is delivered (the
\* downloadlineitems request, or opening the report in the chunked reader),
\* the destination file is as it was before the run.
C10_FileCreatedOnlyOnSuccess ==
  /\ (script = "lineitems" /\ pc = "except_top" /\ CallsOf("downloadlineitems") # <<>>)
       => file = file0
  /\ (script = "report" /\ saveCalls # <<>> /\ pc = "chunk_end"
        /\ dl.caught = "urlopen") => file = file0

====
